---- MODULE Spec2Model ----
(***************************************************************************)
(* A model of lib/sqlalchemy/engine/interfaces.py: the Dialect hook        *)
(* contract, the engine-construction and connection start-up that drive    *)
(* it, and the AdaptedConnection facade for asynchronous drivers.          *)
(*                                                                         *)
(* A method call is modelled by its outcome: Return(v) or Raise(e).        *)
(***************************************************************************)
EXTENDS Integers, Sequences, FiniteSets, TLC

\* ------------------------------------------------------------------ bounds

\* run_async calls one caller makes on one adapted connection
MaxCalls == 3

\* physical connections one pool opens
MaxConns == 3

\* characters in a requested isolation level name
MaxLen == 3

\* how many plugins a URL names at most
MaxPlugins == 2

\* how many handle_error handlers are registered at most
MaxHandlers == 3

\* ------------------------------------------------------------------- state

VARIABLES
    adapted,    \* the AdaptedConnection object: its slot _connection
    apc,        \* where the synchronous caller is: "idle" or "in_run_async"
    cur,        \* the run_async call in progress
    results,    \* what each finished run_async call gave its caller
    alog        \* the order of calls, driver operations and returns

avars == <<adapted, apc, cur, results, alog>>

VARIABLES
    dcall       \* the last hook call made on a dialect and its outcome

dvars == <<dcall>>

VARIABLES
    eng,        \* the engine-construction call and what it built
    ehooks,     \* the dialect hook calls the engine has made, in order
    pool,       \* each physical connection: "absent", "out", "idle", "closed"
    initCalls,  \* how often the on-connect initializer ran on each connection
    initConn    \* the connection Dialect.initialize was called with, 0: none

evars == <<eng, ehooks, pool, initCalls, initConn>>

VARIABLES
    ireq        \* a request for an isolation level on a connection: the
                \* dialect, the connection, the name asked for, the outcome

ivars == <<ireq>>

VARIABLES
    pphase,     \* how far the engine construction with plugins has come
    pidx,       \* the plugin whose hook is called next in this phase
    purl,       \* the URL as the construction has it now
    pkwargs,    \* the keyword arguments as the construction has them now
    plugins,    \* the plugin classes the URL names, in its order
    pobjs,      \* the plugin objects constructed so far
    pcalls,     \* the plugin hook calls made, in order
    pengine     \* the engine built

pvars == <<pphase, pidx, purl, pkwargs, plugins, pobjs, pcalls, pengine>>

VARIABLES
    xphase,     \* how far the statement execution has come, 0: it failed
    xctx,       \* the ExecutionContext object of the execution
    xinput,     \* the execution asked for: the do_execute* hook that serves
                \* it, whether the driver fails in it, the dialect and
                \* whether the statement has bound parameters
    xcalls      \* the hook calls of the execution, in order

xvars == <<xphase, xctx, xinput, xcalls>>

VARIABLES
    hphase,     \* how far the handling of a driver exception has come
    herror,     \* the error: the connection it happened on, whether it
                \* subclasses the DBAPI's Error class, whether the dialect
                \* classifies it as a disconnect, and whether it is wrapped
                \* although it is not a DBAPI error
    hctx,       \* the ExceptionContext passed to the handlers
    hhandlers,  \* the handle_error handlers that have run, in chain order
    hidx,       \* the position in the chain of the handler that runs next
    hnewraise,  \* the exception the handlers have substituted so far
    hpool,      \* for each pooled connection, whether it is still valid
    hseen,      \* what each handler found in the context when it was called
    hraised     \* the exception the caller of the execution receives

hvars ==
    <<hphase, herror, hctx, hhandlers, hidx, hnewraise, hpool, hseen, hraised>>

VARIABLES
    rdict       \* the dictionary a reflection call returned last

rvars == <<rdict>>

vars == <<avars, dvars, evars, ivars, pvars, xvars, hvars, rvars>>

\* ---------------------------------------------------------- call outcomes

None == "None"

NotImplementedError == "NotImplementedError"

\* calls: the hook calls the method made on its way, in order
Return(v) == [kind |-> "return", value |-> v, calls |-> <<>>]

Raise(e) == [kind |-> "raise", value |-> e, calls |-> <<>>]

\* =========================================================================
\* AdaptedConnection
\* =========================================================================

\* the native connections of the asynchronous driver
DriverConnections == {"aconn1", "aconn2"}

\* what the driver's awaitables resolve to, or fail with
Values == {"v1", "v2", None}

Errors == {"e1", "e2"}

\* The functions a caller hands to run_async: each, given the raw driver
\* connection, gives an awaitable that resolves to val or fails with val.
Fns == [res : {"resolve"}, val : Values] \cup [res : {"fail"}, val : Errors]

\* fn(conn): the awaitable the function returns for the connection it is given
CallFn(fn, conn) == [res |-> fn.res, val |-> fn.val, conn |-> conn]

\* util.concurrency.await_only(awaitable): the calling context is suspended
\* until the awaitable is done; its result is returned, its failure raised.
await_only(aw) ==
    [awaits |-> TRUE,
     awaitable |-> aw,
     outcome |-> IF aw.res = "resolve" THEN Return(aw.val) ELSE Raise(aw.val)]

\* run_async as it would be with a slip: the awaitable returned without
\* being awaited; the result dropped; a failure swallowed
run_async_not_awaited(self, fn) ==
    [awaits |-> FALSE,
     awaitable |-> CallFn(fn, self._connection),
     outcome |-> Return("awaitable")]

run_async_no_return(self, fn) ==
    [await_only(CallFn(fn, self._connection)) EXCEPT !.outcome =
        IF @.kind = "return" THEN Return(None) ELSE @]

run_async_swallows(self, fn) ==
    [await_only(CallFn(fn, self._connection)) EXCEPT !.outcome =
        IF @.kind = "raise" THEN Return(None) ELSE @]

\* run_async as it would be were fn given another connection than the one
\* the adapter wraps
run_async_other_connection(self, fn) ==
    await_only(CallFn(fn, CHOOSE c \in DriverConnections :
                              c # self._connection))

\* AdaptedConnection.run_async(fn): return await_only(fn(self._connection))
run_async(self, fn) == await_only(CallFn(fn, self._connection))

\* AdaptedConnection.driver_connection
driver_connection(self) == self._connection

\* no run_async call yet
NoRunAsync ==
    [n |-> 0, fn |-> [res |-> "resolve", val |-> None],
     plan |-> await_only(CallFn([res |-> "resolve", val |-> None], None)),
     aw |-> "none"]

\* the caller enters run_async(fn): fn is called with the raw connection
RunAsyncCall ==
    \E fn \in Fns :
        /\ apc = "idle"
        /\ cur.n < MaxCalls
        /\ apc' = "in_run_async"
        /\ cur' = [n |-> cur.n + 1, fn |-> fn, plan |-> run_async(adapted, fn),
                   aw |-> "created"]
        /\ alog' = Append(alog, [ev |-> "call", n |-> cur.n + 1])
        /\ UNCHANGED <<adapted, results>>
        /\ UNCHANGED <<dvars, evars, ivars, pvars, xvars, hvars, rvars>>

\* the event loop starts the awaited operation
LoopStart ==
    /\ cur.aw = "created"
    /\ cur' = [cur EXCEPT !.aw = "running"]
    /\ alog' = Append(alog, [ev |-> "start", n |-> cur.n])
    /\ UNCHANGED <<adapted, apc, results>>
    /\ UNCHANGED <<dvars, evars, ivars, pvars, xvars, hvars, rvars>>

\* the awaited operation completes or fails
LoopFinish ==
    /\ cur.aw = "running"
    /\ cur' = [cur EXCEPT !.aw = "done"]
    /\ alog' = Append(alog, [ev |-> "finish", n |-> cur.n])
    /\ UNCHANGED <<adapted, apc, results>>
    /\ UNCHANGED <<dvars, evars, ivars, pvars, xvars, hvars, rvars>>

\* run_async gives its caller the outcome
RunAsyncReturn ==
    /\ apc = "in_run_async"
    /\ cur.plan.awaits => cur.aw = "done"
    /\ apc' = "idle"
    /\ results' = Append(results,
                         [fn |-> cur.fn, outcome |-> cur.plan.outcome,
                          arg |-> cur.plan.awaitable.conn])
    /\ alog' = Append(alog, [ev |-> "return", n |-> cur.n])
    /\ UNCHANGED <<adapted, cur>>
    /\ UNCHANGED <<dvars, evars, ivars, pvars, xvars, hvars, rvars>>

AsyncNext == RunAsyncCall \/ LoopStart \/ LoopFinish \/ RunAsyncReturn

\* =========================================================================
\* Dialect
\* =========================================================================

\* The base class and the dialects that override some of its hooks.
\*   OnConnectDialect overrides on_connect only
\*   UrlDialect       overrides on_connect_url only, and does not call on_connect
\*   WrapperDialect   overrides get_dialect_cls only, redirecting "db+async"
\*                    urls to OnConnectDialect
\*   IsoDialect       implements get_isolation_level_values,
\*                    set_isolation_level and get_isolation_level
\*   LegacyIsoDialect implements set_isolation_level and get_isolation_level
Classes ==
    {"Dialect", "OnConnectDialect", "UrlDialect", "WrapperDialect",
     "IsoDialect", "LegacyIsoDialect"}

Overrides ==
    [c \in Classes |->
        CASE c = "Dialect" -> {}
          [] c = "OnConnectDialect" -> {"on_connect"}
          [] c = "UrlDialect" -> {"on_connect_url"}
          [] c = "WrapperDialect" -> {"get_dialect_cls"}
          [] c = "IsoDialect" ->
                {"get_isolation_level_values", "set_isolation_level",
                 "get_isolation_level"}
          [] c = "LegacyIsoDialect" ->
                {"set_isolation_level", "get_isolation_level"}]

\* connection URLs: the driver name and the names of the query parameters
Urls == [drivername : {"db", "db+async"}, query : {{}, {"opt"}}]

\* Isolation level names are strings: sequences of these characters
Chars == {"a", "b", "A", "B", "_", " "}

Names == UNION {[1..k -> Chars] : k \in 0..MaxLen}

Range(f) == {f[i] : i \in DOMAIN f}

\* the names IsoDialect.get_isolation_level_values lists, which are the names
\* the drivers of IsoDialect and LegacyIsoDialect accept: "A", "A B", "BB"
IsoValues == << <<"A">>, <<"A", " ", "B">>, <<"B", "B">> >>

\* a DBAPI connection, as far as isolation goes: its current level
DBAPIConnections == [level : Range(IsoValues)]

\* the reflection hooks of the Dialect contract
ReflectionHooks ==
    {"get_columns", "get_pk_constraint", "get_foreign_keys", "get_table_names",
     "get_temp_table_names", "get_view_names", "get_sequence_names",
     "get_temp_view_names", "get_view_definition", "get_indexes",
     "get_unique_constraints", "get_check_constraints", "get_table_options",
     "get_table_comment", "has_table", "has_index", "has_sequence"}

\* the methods of class Dialect whose whole body is raise NotImplementedError()
Dialect_NotImplemented ==
    {"create_connect_args", "type_descriptor",
     "get_columns", "get_pk_constraint", "get_foreign_keys", "get_table_names",
     "get_temp_table_names", "get_view_names", "get_sequence_names",
     "get_temp_view_names", "get_view_definition", "get_indexes",
     "get_unique_constraints", "get_check_constraints",
     "get_table_comment", "normalize_name", "denormalize_name",
     "has_table", "has_index", "has_sequence",
     "_get_server_version_info", "_get_default_schema_name",
     "do_begin", "do_rollback", "do_commit", "do_close",
     "do_set_input_sizes", "create_xid", "do_savepoint",
     "do_rollback_to_savepoint", "do_release_savepoint",
     "do_begin_twophase", "do_prepare_twophase", "do_rollback_twophase",
     "do_commit_twophase", "do_recover_twophase",
     "do_executemany", "do_execute", "do_execute_no_params", "is_disconnect",
     "reset_isolation_level", "set_isolation_level", "get_isolation_level",
     "get_default_isolation_level", "get_isolation_level_values",
     "get_driver_connection"}

\* the methods of class Dialect with another body, each modelled below
Dialect_Other ==
    {"initialize", "get_table_options", "connect", "on_connect_url",
     "on_connect", "get_dialect_cls", "get_async_dialect_cls",
     "load_provisioning", "engine_created"}

\* every hook method of class Dialect
Hooks == Dialect_NotImplemented \cup Dialect_Other

\* the hooks declared @classmethod
ClassMethods ==
    {"type_descriptor", "get_dialect_cls", "get_async_dialect_cls",
     "load_provisioning", "engine_created"}

RECURSIVE Invoke(_, _, _)

\* initialize as it would be with the body of most hooks
initialize_raises(self, connection) == Raise(NotImplementedError)

\* Dialect.initialize: pass
initialize(self, connection) == Return(None)

\* Dialect.get_table_options: a docstring and no statement
get_table_options(self, connection) == Return(None)

\* Dialect.connect: a docstring and no statement
connect(self, cargs) == Return(None)

\* on_connect as it would be with an initializer of its own
on_connect_returns_callable(self) == Return("do_on_connect")

\* Dialect.on_connect: return None
on_connect(self) == Return(None)

\* on_connect_url as it would be without the call of on_connect
on_connect_url_no_call(self, url) == Return(None)

\* Dialect.on_connect_url: return self.on_connect()
on_connect_url(self, url) == Invoke(self, "on_connect", None)

\* Dialect.get_dialect_cls: return cls
get_dialect_cls(cls, url) == Return(cls)

\* get_async_dialect_cls as it would be with the body of get_dialect_cls
get_async_dialect_cls_returns_cls(cls, url) == Return(cls)

\* Dialect.get_async_dialect_cls: return cls.get_dialect_cls(url)
get_async_dialect_cls(cls, url) == Invoke(cls, "get_dialect_cls", url)

\* Dialect.load_provisioning: a docstring and no statement
load_provisioning(cls) == Return(None)

\* engine_created as it would be with the body of most hooks
engine_created_raises(cls, engine) == Raise(NotImplementedError)

\* Dialect.engine_created: a docstring and no statement
engine_created(cls, engine) == Return(None)

\* the body class Dialect gives hook m
BaseMethod(self, m, arg) ==
    CASE m \in Dialect_NotImplemented -> Raise(NotImplementedError)
      [] m = "initialize" -> initialize(self, arg)
      [] m = "get_table_options" -> get_table_options(self, arg)
      [] m = "connect" -> connect(self, arg)
      [] m = "on_connect_url" -> on_connect_url(self, arg)
      [] m = "on_connect" -> on_connect(self)
      [] m = "get_dialect_cls" -> get_dialect_cls(self, arg)
      [] m = "get_async_dialect_cls" -> get_async_dialect_cls(self, arg)
      [] m = "load_provisioning" -> load_provisioning(self)
      [] m = "engine_created" -> engine_created(self, arg)

\* the body a subclass gives a hook it overrides
OverridingMethod(self, m, arg) ==
    CASE self = "OnConnectDialect" /\ m = "on_connect" ->
            Return("do_on_connect")
      [] self = "UrlDialect" /\ m = "on_connect_url" ->
            Return("do_on_connect_url")
      [] self = "WrapperDialect" /\ m = "get_dialect_cls" ->
            IF arg.drivername = "db+async"
            THEN Return("OnConnectDialect") ELSE Return(self)

\* the isolation hooks of a dialect that implements them, as the callers of
\* set_isolation_level need them: get_isolation_level_values returns a
\* hardcoded list, and the driver behind set_isolation_level accepts the
\* names of that list and fails on any other; get_isolation_level returns
\* the level in effect on the connection it is given
ImplementedIsolationMethod(self, m, arg) ==
    CASE m = "get_isolation_level_values" -> Return(IsoValues)
      [] m = "set_isolation_level" ->
            IF arg.level \in Range(IsoValues)
            THEN Return(None) ELSE Raise("DBAPIError")
      [] m = "get_isolation_level" -> Return(arg.level)

\* self.m(arg), or cls.m(arg): the method the class of self resolves m to,
\* with the call itself first among the calls made
Invoke(self, m, arg) ==
    LET r == IF m \notin Overrides[self]
             THEN BaseMethod(self, m, arg)
             ELSE IF m \in {"get_isolation_level_values",
                            "set_isolation_level", "get_isolation_level"}
             THEN ImplementedIsolationMethod(self, m, arg)
             ELSE OverridingMethod(self, m, arg)
    IN  [r EXCEPT !.calls = <<[cls |-> self, m |-> m]>> \o @]

\* how many times hook m is among the calls
CountCalls(calls, m) == Cardinality({i \in DOMAIN calls : calls[i].m = m})

NoCall == [cls |-> "Dialect", hook |-> "none", arg |-> None,
           outcome |-> Return(None)]

\* the arguments a caller hands hook m, its self or cls aside
ArgsOf(m) ==
    CASE m \in {"create_connect_args", "on_connect_url", "get_dialect_cls",
                "get_async_dialect_cls"} -> Urls
      [] m \in {"get_isolation_level", "get_default_isolation_level",
                "get_isolation_level_values", "reset_isolation_level"} ->
            DBAPIConnections
      [] m = "set_isolation_level" ->
            [conn : DBAPIConnections, level : Range(IsoValues) \cup {<<"a">>}]
      [] OTHER -> {None}

\* a caller calls hook m of a dialect object of class c
CallHook ==
    \E c \in Classes, m \in Hooks \ ClassMethods :
        \E a \in ArgsOf(m) :
            /\ dcall' = [cls |-> c, hook |-> m, arg |-> a,
                         outcome |-> Invoke(c, m, a)]
            /\ UNCHANGED <<avars, evars, ivars, pvars, xvars, hvars, rvars>>

\* a caller calls classmethod m of the dialect class c
CallClassHook ==
    \E c \in Classes, m \in ClassMethods :
        \E a \in ArgsOf(m) :
            /\ dcall' = [cls |-> c, hook |-> m, arg |-> a,
                         outcome |-> Invoke(c, m, a)]
            /\ UNCHANGED <<avars, evars, ivars, pvars, xvars, hvars, rvars>>

DialectNext == CallHook \/ CallClassHook

\* =========================================================================
\* Engine construction and the connection pool
\* =========================================================================

Conns == 1..MaxConns

\* create_engine(url): the entrypoint class found for the url resolves the
\* dialect class, through get_async_dialect_cls for an async engine; the
\* dialect's on_connect_url(url) gives the initializer, which is registered
\* as the pool's "connect" listener unless it is None; engine_created runs on
\* the resolved class and then, when it is another class, on the entrypoint.
\* The first hook to raise ends the construction.
create_engine(entry, url, is_async) ==
    LET r1 == Invoke(entry, IF is_async THEN "get_async_dialect_cls"
                                        ELSE "get_dialect_cls", url)
        r2 == Invoke(r1.value, "on_connect_url", url)
        r3 == Invoke(r1.value, "engine_created", "engine")
        r4 == IF entry # r1.value
              THEN Invoke(entry, "engine_created", "engine")
              ELSE Return(None)
        Failed(calls) ==
            [state |-> "failed", dialect_cls |-> entry, listener |-> None,
             calls |-> calls]
    IN  IF r1.kind = "raise" THEN Failed(r1.calls)
        ELSE IF r2.kind = "raise" THEN Failed(r1.calls \o r2.calls)
        ELSE IF r3.kind = "raise"
            THEN Failed(r1.calls \o r2.calls \o r3.calls)
        ELSE IF r4.kind = "raise"
            THEN Failed(r1.calls \o r2.calls \o r3.calls \o r4.calls)
        ELSE [state |-> "built", dialect_cls |-> r1.value,
              listener |-> r2.value,
              calls |-> r1.calls \o r2.calls \o r3.calls \o r4.calls]

NoEngine ==
    [state |-> "none", entry |-> "Dialect", url |-> [drivername |-> "db", query |-> {}],
     is_async |-> FALSE, dialect_cls |-> "Dialect", listener |-> None]

\* an application calls create_engine, or create_async_engine
CreateEngine ==
    \E entry \in Classes, url \in Urls, is_async \in BOOLEAN :
        /\ eng.state = "none"
        /\ LET e == create_engine(entry, url, is_async)
           IN  /\ eng' = [state |-> e.state, entry |-> entry, url |-> url,
                          is_async |-> is_async, dialect_cls |-> e.dialect_cls,
                          listener |-> e.listener]
               /\ ehooks' = e.calls
        /\ UNCHANGED <<pool, initCalls, initConn>>
        /\ UNCHANGED <<avars, dvars, ivars, pvars, xvars, hvars, rvars>>

\* the pool's "connect" event: the calls of the listener it makes
ConnectEvent == IF eng.listener # None THEN 1 ELSE 0

\* the listeners as they would run were initialize registered first
ConnectListeners_initialize_first(cls, listener, first) ==
    (IF first THEN Invoke(cls, "initialize", None).calls ELSE <<>>)
        \o (IF listener # None THEN <<[cls |-> cls, m |-> listener]>>
            ELSE <<>>)

\* the calls the pool's "connect" event makes on a new connection, in the
\* order the listeners were registered: the callable on_connect_url
\* returned, unless it is None, and then, on the first connection of the
\* dialect only, Dialect.initialize
ConnectListeners(cls, listener, first) ==
    (IF listener # None THEN <<[cls |-> cls, m |-> listener]>> ELSE <<>>)
        \o (IF first THEN Invoke(cls, "initialize", None).calls ELSE <<>>)

\* the pool opens a new physical connection with Dialect.connect and hands it
\* out: the "connect" event runs the registered initializer on it, and the
\* first connection of the dialect is the one Dialect.initialize is called
\* with
PoolConnect ==
    \E c \in Conns :
        /\ eng.state = "built"
        /\ pool[c] = "absent"
        /\ \A b \in Conns : b < c => pool[b] # "absent"
        /\ pool' = [pool EXCEPT ![c] = "out"]
        /\ initCalls' = [initCalls EXCEPT ![c] = @ + ConnectEvent]
        /\ initConn' = IF initConn = 0 THEN c ELSE initConn
        /\ ehooks' = ehooks
                \o Invoke(eng.dialect_cls, "connect", None).calls
                \o ConnectListeners(eng.dialect_cls, eng.listener,
                                    initConn = 0)
        /\ UNCHANGED eng
        /\ UNCHANGED <<avars, dvars, ivars, pvars, xvars, hvars, rvars>>

\* a pooled connection is handed out again
PoolCheckout ==
    \E c \in Conns :
        /\ pool[c] = "idle"
        /\ pool' = [pool EXCEPT ![c] = "out"]
        /\ UNCHANGED <<eng, ehooks, initCalls, initConn>>
        /\ UNCHANGED <<avars, dvars, ivars, pvars, xvars, hvars, rvars>>

\* a connection is returned to the pool
PoolCheckin ==
    \E c \in Conns :
        /\ pool[c] = "out"
        /\ pool' = [pool EXCEPT ![c] = "idle"]
        /\ UNCHANGED <<eng, ehooks, initCalls, initConn>>
        /\ UNCHANGED <<avars, dvars, ivars, pvars, xvars, hvars, rvars>>

\* the pool closes a physical connection it holds
PoolClose ==
    \E c \in Conns :
        /\ pool[c] = "idle"
        /\ pool' = [pool EXCEPT ![c] = "closed"]
        /\ UNCHANGED <<eng, ehooks, initCalls, initConn>>
        /\ UNCHANGED <<avars, dvars, ivars, pvars, xvars, hvars, rvars>>

EngineNext ==
    CreateEngine \/ PoolConnect \/ PoolCheckout \/ PoolCheckin \/ PoolClose

\* =========================================================================
\* Isolation levels
\* =========================================================================

\* str.upper() on one character
Upper(ch) == CASE ch = "a" -> "A" [] ch = "b" -> "B" [] OTHER -> ch

\* the normalization as it would be with the underscores left in place
NormalizeLevel_upper_only(level) == [i \in DOMAIN level |-> Upper(level[i])]

\* level.replace("_", " ").upper(): the name as it is passed to the dialect
NormalizeLevel(level) ==
    [i \in DOMAIN level |-> Upper(IF level[i] = "_" THEN " " ELSE level[i])]

\* the caller of set_isolation_level as it would be with the check left out
_assert_and_set_isolation_level_unchecked(dialect, conn, requested) ==
    LET level == NormalizeLevel(requested)
        set == Invoke(dialect, "set_isolation_level",
                      [conn |-> conn, level |-> level])
    IN  [outcome |-> [set EXCEPT !.calls = <<>>], calls |-> set.calls,
         passed |-> <<level>>]

\* The caller of Dialect.set_isolation_level: the requested name is normalized
\* and, when the dialect implements get_isolation_level_values, must be in
\* the list it returns, else the request fails with ArgumentError; without
\* that hook the name goes to set_isolation_level unchecked.
_assert_and_set_isolation_level(dialect, conn, requested) ==
    LET level == NormalizeLevel(requested)
        values == Invoke(dialect, "get_isolation_level_values", conn)
        set == Invoke(dialect, "set_isolation_level",
                      [conn |-> conn, level |-> level])
    IN  IF values.kind = "return" /\ level \notin Range(values.value)
        THEN [outcome |-> Raise("ArgumentError"), calls |-> values.calls,
              passed |-> <<>>]
        ELSE [outcome |-> [set EXCEPT !.calls = <<>>],
              calls |-> values.calls \o set.calls,
              passed |-> <<level>>]

NoRequest ==
    [cls |-> "Dialect", conn |-> [level |-> <<"A">>], requested |-> <<>>,
     state |-> "done", outcome |-> Return(None), calls |-> <<>>,
     passed |-> <<>>]

\* the request is served
SetIsolationLevel ==
    /\ ireq.state = "pending"
    /\ LET r == _assert_and_set_isolation_level(ireq.cls, ireq.conn,
                                                ireq.requested)
       IN  ireq' = [ireq EXCEPT
                        !.state = "done",
                        !.outcome = r.outcome,
                        !.calls = r.calls,
                        !.passed = r.passed]
    /\ UNCHANGED <<avars, dvars, evars, pvars, xvars, hvars, rvars>>

IsoNext == SetIsolationLevel

\* =========================================================================
\* CreateEnginePlugin
\* =========================================================================

\* the base class and the plugin of the class docstring
PluginClasses == {"CreateEnginePlugin", "LogCursorEventsPlugin"}

PluginOverrides ==
    [c \in PluginClasses |->
        IF c = "LogCursorEventsPlugin"
        THEN {"__init__", "update_url", "engine_created"} ELSE {}]

\* the query parameters each plugin class consumes
PluginParams ==
    [c \in PluginClasses |->
        IF c = "LogCursorEventsPlugin"
        THEN {"log_cursor_logging_name"} ELSE {}]

\* URLs handed to an engine construction that names plugins
PluginUrls ==
    [drivername : {"db"}, query : SUBSET {"log_cursor_logging_name", "opt"}]

\* keyword arguments handed to an engine construction
PluginKwargs == SUBSET {"echo"}

\* the plugin lists a URL can name
PluginLists == UNION {[1..k -> PluginClasses] : k \in 1..MaxPlugins}

\* None where a URL is expected
NoneUrl == [drivername |-> None, query |-> {}]

\* no engine has been built
NoEngineBuilt == [url |-> NoneUrl, kwargs |-> {}]

\* URL.difference_update_query(names): the URL without those query parameters
difference_update_query(url, names) == [url EXCEPT !.query = @ \ names]

\* CreateEnginePlugin.__init__(url, kwargs): the object, with url stored, and
\* the kwargs as the call leaves them
CreateEnginePlugin_init(cls, url, kwargs) ==
    [self |-> [cls |-> cls, url |-> url], kwargs |-> kwargs]

\* update_url as it would be were the base class to strip a parameter
CreateEnginePlugin_update_url_strips(self, url) ==
    Return(difference_update_query(url, {"opt"}))

\* CreateEnginePlugin.update_url(url)
CreateEnginePlugin_update_url(self, url) == Return(NoneUrl)

\* CreateEnginePlugin.handle_dialect_kwargs(dialect_cls, dialect_args)
CreateEnginePlugin_handle_dialect_kwargs(self, args) == Return(None)

\* CreateEnginePlugin.handle_pool_kwargs(pool_cls, pool_args)
CreateEnginePlugin_handle_pool_kwargs(self, args) == Return(None)

\* CreateEnginePlugin.engine_created(engine)
CreateEnginePlugin_engine_created(self, engine) == Return(None)

\* LogCursorEventsPlugin.__init__(url, kwargs): reads its parameter from the
\* URL query, with a default, and keeps the logger of that name
LogCursorEventsPlugin_init(cls, url, kwargs) ==
    [self |-> [cls |-> cls,
               log |-> IF "log_cursor_logging_name" \in url.query
                       THEN "named" ELSE "log_cursor"],
     kwargs |-> kwargs]

\* LogCursorEventsPlugin.update_url(url)
LogCursorEventsPlugin_update_url(self, url) ==
    Return(difference_update_query(url, {"log_cursor_logging_name"}))

\* plugin.m(arg) for a hook other than __init__
PluginInvoke(self, m, arg) ==
    CASE m = "update_url" ->
            IF m \in PluginOverrides[self.cls]
            THEN LogCursorEventsPlugin_update_url(self, arg)
            ELSE CreateEnginePlugin_update_url(self, arg)
      [] m = "handle_dialect_kwargs" ->
            CreateEnginePlugin_handle_dialect_kwargs(self, arg)
      [] m = "handle_pool_kwargs" ->
            CreateEnginePlugin_handle_pool_kwargs(self, arg)
      [] m = "engine_created" ->
            IF m \in PluginOverrides[self.cls]
            THEN Return(None)
            ELSE CreateEnginePlugin_engine_created(self, arg)

\* the phases of an engine construction as they would be were the engine
\* handed to the plugins before the pool arguments
PluginPhases_engine_first ==
    <<"__init__", "update_url", "handle_dialect_kwargs", "engine",
      "engine_created", "handle_pool_kwargs", "done">>

\* the phases of an engine construction that names plugins: every plugin is
\* constructed, then every plugin's update_url is called, then the dialect
\* and the pool arguments go through the plugins, the engine is built, and
\* the plugins receive it
PluginPhases ==
    <<"__init__", "update_url", "handle_dialect_kwargs",
      "handle_pool_kwargs", "engine", "engine_created", "done">>

\* the phase after the one at position n has gone through all plugins
NextPhase(n) == IF n < Len(PluginPhases) THEN n + 1 ELSE n

\* a hook call as the construction's history keeps it
PluginCall(i, m, arg, r) == [i |-> i, m |-> m, arg |-> arg, outcome |-> r]

\* the position after plugin pidx has had its call in this phase
PluginStep ==
    IF pidx < Len(plugins)
    THEN /\ pidx' = pidx + 1
         /\ pphase' = pphase
    ELSE /\ pidx' = 1
         /\ pphase' = NextPhase(pphase)

\* plugin = plugin_cls(url, kwargs)
PluginInit ==
    /\ PluginPhases[pphase] = "__init__"
    /\ LET cls == plugins[pidx]
           r == IF "__init__" \in PluginOverrides[cls]
                THEN LogCursorEventsPlugin_init(cls, purl, pkwargs)
                ELSE CreateEnginePlugin_init(cls, purl, pkwargs)
       IN  /\ pobjs' = Append(pobjs, r.self)
           /\ pkwargs' = r.kwargs
           /\ pcalls' = Append(pcalls,
                               PluginCall(pidx, "__init__", purl, Return(None)))
    /\ PluginStep
    /\ UNCHANGED <<purl, plugins, pengine>>
    /\ UNCHANGED <<avars, dvars, evars, ivars, xvars, hvars, rvars>>

\* new_u = plugin.update_url(u); the URL returned, unless None, replaces u
PluginUpdateUrl ==
    /\ PluginPhases[pphase] = "update_url"
    /\ LET r == PluginInvoke(pobjs[pidx], "update_url", purl)
       IN  /\ purl' = IF r.value # NoneUrl THEN r.value ELSE purl
           /\ pcalls' = Append(pcalls, PluginCall(pidx, "update_url", purl, r))
    /\ PluginStep
    /\ UNCHANGED <<pkwargs, plugins, pobjs, pengine>>
    /\ UNCHANGED <<avars, dvars, evars, ivars, xvars, hvars, rvars>>

\* plugin.handle_dialect_kwargs(dialect_cls, dialect_args)
PluginHandleDialectKwargs ==
    /\ PluginPhases[pphase] = "handle_dialect_kwargs"
    /\ pcalls' = Append(pcalls,
            PluginCall(pidx, "handle_dialect_kwargs", pkwargs,
                PluginInvoke(pobjs[pidx], "handle_dialect_kwargs", pkwargs)))
    /\ PluginStep
    /\ UNCHANGED <<purl, pkwargs, plugins, pobjs, pengine>>
    /\ UNCHANGED <<avars, dvars, evars, ivars, xvars, hvars, rvars>>

\* plugin.handle_pool_kwargs(pool_cls, pool_args)
PluginHandlePoolKwargs ==
    /\ PluginPhases[pphase] = "handle_pool_kwargs"
    /\ pcalls' = Append(pcalls,
            PluginCall(pidx, "handle_pool_kwargs", pkwargs,
                PluginInvoke(pobjs[pidx], "handle_pool_kwargs", pkwargs)))
    /\ PluginStep
    /\ UNCHANGED <<purl, pkwargs, plugins, pobjs, pengine>>
    /\ UNCHANGED <<avars, dvars, evars, ivars, xvars, hvars, rvars>>

\* the engine is built from the URL the plugins left
BuildEngine ==
    /\ PluginPhases[pphase] = "engine"
    /\ pengine' = [url |-> purl, kwargs |-> pkwargs]
    /\ pphase' = NextPhase(pphase)
    /\ UNCHANGED <<pidx, purl, pkwargs, plugins, pobjs, pcalls>>
    /\ UNCHANGED <<avars, dvars, evars, ivars, xvars, hvars, rvars>>

\* plugin.engine_created(engine)
PluginEngineCreated ==
    /\ PluginPhases[pphase] = "engine_created"
    /\ pcalls' = Append(pcalls,
            PluginCall(pidx, "engine_created", pengine,
                PluginInvoke(pobjs[pidx], "engine_created", pengine)))
    /\ PluginStep
    /\ UNCHANGED <<purl, pkwargs, plugins, pobjs, pengine>>
    /\ UNCHANGED <<avars, dvars, evars, ivars, xvars, hvars, rvars>>

PluginNext ==
    \/ PluginInit \/ PluginUpdateUrl \/ PluginHandleDialectKwargs
    \/ PluginHandlePoolKwargs \/ BuildEngine \/ PluginEngineCreated

\* =========================================================================
\* ExecutionContext
\* =========================================================================

\* the base class, a context that implements the hooks, and the context of
\* the get_result_cursor_strategy docstring, which extends the latter
ContextClasses ==
    {"ExecutionContext", "DefaultExecutionContext", "MyExecutionContext"}

\* the methods of ExecutionContext
ExecutionContext_Methods ==
    {"create_cursor", "pre_exec", "get_out_parameter_values", "post_exec",
     "get_result_cursor_strategy", "handle_dbapi_exception",
     "lastrow_has_defaults", "get_rowcount"}

\* the Dialect hooks that execute a statement
DoExecuteHooks == {"do_execute", "do_executemany", "do_execute_no_params"}

\* class BindTyping
BindTyping == {"NONE", "SETINPUTSIZES", "RENDER_CASTS"}

\* the dialects a statement is executed on: the base class and one subclass
\* for each of the other two members of BindTyping
ExecDialects == {"Dialect", "SetInputSizesDialect", "RenderCastsDialect"}

\* the class attribute as it would be were setinputsizes the default
Dialect_bind_typing_setinputsizes == "SETINPUTSIZES"

\* Dialect.bind_typing
Dialect_bind_typing == "NONE"

\* dialect.bind_typing, the class attribute a subclass may set
bind_typing(cls) ==
    CASE cls = "SetInputSizesDialect" -> "SETINPUTSIZES"
      [] cls = "RenderCastsDialect" -> "RENDER_CASTS"
      [] OTHER -> Dialect_bind_typing

\* dialect.do_set_input_sizes(cursor, list_of_tuples, context): the dialect
\* that asks for setinputsizes implements it
do_set_input_sizes(cls) ==
    IF cls = "SetInputSizesDialect"
    THEN Return(None)
    ELSE BaseMethod(cls, "do_set_input_sizes", None)

\* the statements an execution can be asked for: do_execute_no_params
\* serves only statements without bound parameters
ExecInputs ==
    {x \in [hook : DoExecuteHooks, fails : BOOLEAN, dialect : ExecDialects,
            has_params : BOOLEAN] :
        x.hook = "do_execute_no_params" => ~x.has_params}

\* every method of the base ExecutionContext
ExecutionContext_base(self, m) ==
    [outcome |-> Raise(NotImplementedError), self |-> self]

\* MyExecutionContext.pre_exec: under its special condition it reads
\* self.cursor.description and self.cursor.fetchall()
MyExecutionContext_pre_exec(self) ==
    IF ~self.special
    THEN [outcome |-> Return(None), self |-> self]
    ELSE IF self.cursor = None
    THEN [outcome |-> Raise("AttributeError"), self |-> self]
    ELSE [outcome |-> Return(None),
          self |-> [self EXCEPT !._pre_buffered_result = TRUE]]

\* MyExecutionContext.get_result_cursor_strategy
MyExecutionContext_get_result_cursor_strategy(self) ==
    [outcome |-> IF self._pre_buffered_result
                 THEN Return("FullyBufferedCursorFetchStrategy")
                 ELSE Return("DefaultCursorFetchStrategy"),
     self |-> self]

\* a context that implements the hooks as the class docstring asks
DefaultExecutionContext_method(self, m) ==
    CASE m = "create_cursor" ->
            [outcome |-> Return("cursor"), self |-> self]
      [] m = "pre_exec" ->
            [outcome |-> Return(None),
             self |-> [self EXCEPT !.statement = "statement"]]
      [] m = "get_result_cursor_strategy" ->
            [outcome |-> Return("DefaultCursorFetchStrategy"), self |-> self]
      [] OTHER -> [outcome |-> Return(None), self |-> self]

\* context.m(): the outcome and the context after the call
ContextInvoke(self, m) ==
    CASE self.cls = "ExecutionContext" -> ExecutionContext_base(self, m)
      [] self.cls = "MyExecutionContext" /\ m = "pre_exec" ->
            MyExecutionContext_pre_exec(self)
      [] self.cls = "MyExecutionContext"
            /\ m = "get_result_cursor_strategy" ->
            MyExecutionContext_get_result_cursor_strategy(self)
      [] OTHER -> DefaultExecutionContext_method(self, m)

\* the phases as they would be with pre_exec before the cursor is created
ExecPhases_pre_exec_first ==
    <<"pre_exec", "create_cursor", "set_input_sizes", "do_execute",
      "post_exec", "get_result_cursor_strategy", "done">>

\* the phases of a statement execution after the context is constructed:
\* the cursor is created and kept as self.cursor, then pre_exec, the
\* input sizes where the dialect asks for them, the dialect's do_execute*
\* hook, post_exec and the result strategy
ExecPhases ==
    <<"create_cursor", "pre_exec", "set_input_sizes", "do_execute",
      "post_exec", "get_result_cursor_strategy", "done">>

\* a context hook call as the execution's history keeps it: the cursor is
\* the one the context had when the call was made
ContextCall(m, r) == [m |-> m, cursor |-> xctx.cursor, kind |-> r.kind]

\* the next phase after a hook call with outcome r
AfterCall(r) == IF r.kind = "return" THEN xphase + 1 ELSE 0

\* self.cursor = self.create_cursor()
CreateCursor ==
    /\ xphase > 0
    /\ ExecPhases[xphase] = "create_cursor"
    /\ LET c == ContextInvoke(xctx, "create_cursor")
       IN  /\ xctx' = IF c.outcome.kind = "return"
                      THEN [c.self EXCEPT !.cursor = c.outcome.value]
                      ELSE c.self
           /\ xcalls' = Append(xcalls, ContextCall("create_cursor", c.outcome))
           /\ xphase' = AfterCall(c.outcome)
    /\ UNCHANGED xinput
    /\ UNCHANGED <<avars, dvars, evars, ivars, pvars, hvars, rvars>>

\* context.pre_exec()
PreExec ==
    /\ xphase > 0
    /\ ExecPhases[xphase] = "pre_exec"
    /\ LET c == ContextInvoke(xctx, "pre_exec")
       IN  /\ xctx' = c.self
           /\ xcalls' = Append(xcalls, ContextCall("pre_exec", c.outcome))
           /\ xphase' = AfterCall(c.outcome)
    /\ UNCHANGED xinput
    /\ UNCHANGED <<avars, dvars, evars, ivars, pvars, hvars, rvars>>

\* if dialect.bind_typing is BindTyping.SETINPUTSIZES and the statement has
\* bound parameters: dialect.do_set_input_sizes(cursor, sizes, context)
SetInputSizes ==
    /\ xphase > 0
    /\ ExecPhases[xphase] = "set_input_sizes"
    /\ IF bind_typing(xinput.dialect) = "SETINPUTSIZES" /\ xinput.has_params
       THEN LET r == do_set_input_sizes(xinput.dialect)
            IN  /\ xcalls' = Append(xcalls,
                                    ContextCall("do_set_input_sizes", r))
                /\ xphase' = AfterCall(r)
       ELSE /\ xphase' = xphase + 1
            /\ UNCHANGED xcalls
    /\ UNCHANGED <<xctx, xinput>>
    /\ UNCHANGED <<avars, dvars, evars, ivars, pvars, hvars, rvars>>

\* dialect.do_execute*(cursor, statement, parameters, context); when the
\* driver fails in it the context's handle_dbapi_exception receives the error
DoExecute ==
    /\ xphase > 0
    /\ ExecPhases[xphase] = "do_execute"
    /\ LET r == IF xinput.fails THEN Raise("DBAPIError") ELSE Return(None)
           h == ContextInvoke(xctx, "handle_dbapi_exception")
       IN  /\ xcalls' =
                IF xinput.fails
                THEN xcalls \o <<ContextCall(xinput.hook, r),
                                 ContextCall("handle_dbapi_exception",
                                             h.outcome)>>
                ELSE Append(xcalls, ContextCall(xinput.hook, r))
           /\ xphase' = AfterCall(r)
    /\ UNCHANGED <<xctx, xinput>>
    /\ UNCHANGED <<avars, dvars, evars, ivars, pvars, hvars, rvars>>

\* context.post_exec()
PostExec ==
    /\ xphase > 0
    /\ ExecPhases[xphase] = "post_exec"
    /\ LET c == ContextInvoke(xctx, "post_exec")
       IN  /\ xctx' = c.self
           /\ xcalls' = Append(xcalls, ContextCall("post_exec", c.outcome))
           /\ xphase' = AfterCall(c.outcome)
    /\ UNCHANGED xinput
    /\ UNCHANGED <<avars, dvars, evars, ivars, pvars, hvars, rvars>>

\* context.get_result_cursor_strategy(result)
GetResultCursorStrategy ==
    /\ xphase > 0
    /\ ExecPhases[xphase] = "get_result_cursor_strategy"
    /\ LET c == ContextInvoke(xctx, "get_result_cursor_strategy")
       IN  /\ xctx' = IF c.outcome.kind = "return"
                      THEN [c.self EXCEPT !.strategy = c.outcome.value]
                      ELSE c.self
           /\ xcalls' = Append(xcalls,
                    ContextCall("get_result_cursor_strategy", c.outcome))
           /\ xphase' = AfterCall(c.outcome)
    /\ UNCHANGED xinput
    /\ UNCHANGED <<avars, dvars, evars, ivars, pvars, hvars, rvars>>

ExecNext ==
    \/ CreateCursor \/ PreExec \/ SetInputSizes \/ DoExecute \/ PostExec
    \/ GetResultCursorStrategy

\* a context just constructed
NewContext(cls, compiled, special) ==
    [cls |-> cls, compiled |-> compiled, special |-> special,
     cursor |-> None, statement |-> IF compiled THEN None ELSE "statement",
     _pre_buffered_result |-> FALSE, strategy |-> None]

\* =========================================================================
\* ExceptionContext
\* =========================================================================

\* the context as it would be with the pool flag off by default
ExceptionContext_new_pool_flag_off ==
    [connection |-> None, engine |-> None, cursor |-> None,
     statement |-> None, parameters |-> None, original_exception |-> None,
     sqlalchemy_exception |-> None, chained_exception |-> None,
     execution_context |-> None, is_disconnect |-> None,
     invalidate_pool_on_disconnect |-> FALSE]

\* an ExceptionContext with the attributes of the class
ExceptionContext_new ==
    [connection |-> None, engine |-> None, cursor |-> None,
     statement |-> None, parameters |-> None, original_exception |-> None,
     sqlalchemy_exception |-> None, chained_exception |-> None,
     execution_context |-> None, is_disconnect |-> None,
     invalidate_pool_on_disconnect |-> TRUE]

\* None where an exception is expected
NoExc == [name |-> None, by |-> 0]

\* the exception the driver raised
DriverExc == [name |-> "driver exception", by |-> 0]

\* the StatementError that wraps the driver's exception
WrappingExc == [name |-> "StatementError", by |-> 0]

\* the exception the handler at position i of the chain returns
HandlerExc(i) == [name |-> "handler exception", by |-> i]

\* the exception the handler at position i of the chain raises
HandlerRaisedExc(i) == [name |-> "raised by handler", by |-> i]

\* the errors caught, on the first or the last connection of the pool: the
\* dialect is asked to classify DBAPI errors only, and an exception that is
\* not a DBAPI error may or may not be wrapped
Errors_caught ==
    {e \in [conn : {1, MaxConns}, dbapi : BOOLEAN, disconnect : BOOLEAN,
            wraps : BOOLEAN] :
        /\ e.disconnect => e.dbapi
        /\ e.wraps => ~e.dbapi}

\* a handle_error handler: what it assigns to is_disconnect and to
\* invalidate_pool_on_disconnect, "keep" when it leaves the flag alone,
\* and how it ends: it returns None, returns an exception or raises one
Handlers == [is_disconnect : {"keep", "True", "False"},
             invalidate_pool_on_disconnect : {"keep", "True", "False"},
             outcome : {"none", "returns", "raises"}]

\* the context after the handler h at position i of the chain ran: the
\* flags as the handler assigned them, and the exception it returned, if
\* any, as the chained exception of the handlers after it
RunHandlerOn(ctx, h, i) ==
    [ctx EXCEPT
        !.is_disconnect = IF h.is_disconnect = "keep" THEN @
                          ELSE h.is_disconnect,
        !.invalidate_pool_on_disconnect =
            IF h.invalidate_pool_on_disconnect = "keep" THEN @
            ELSE h.invalidate_pool_on_disconnect = "True",
        !.chained_exception =
            IF h.outcome = "returns" THEN HandlerExc(i) ELSE @]

\* the exception substituted after the handler h at position i of the chain
\* ran: the one it returned or raised, else the one substituted before
NewRaiseAfter(newraise, h, i) ==
    CASE h.outcome = "returns" -> HandlerExc(i)
      [] h.outcome = "raises" -> HandlerRaisedExc(i)
      [] OTHER -> newraise

\* the invalidation as it would be were the dialect's classification to
\* decide it
InvalidateOnDisconnect_by_dialect(p, ctx, conn) ==
    IF ~(herror.dbapi /\ herror.disconnect) THEN p
    ELSE IF ctx.invalidate_pool_on_disconnect
    THEN [c \in Conns |-> FALSE]
    ELSE [p EXCEPT ![conn] = FALSE]

\* the pool after the handlers ran: under a disconnect every connection is
\* invalidated, or only the connection of the error when the flag is off
InvalidateOnDisconnect(p, ctx, conn) ==
    IF ctx.is_disconnect # "True" THEN p
    ELSE IF ctx.invalidate_pool_on_disconnect
    THEN [c \in Conns |-> FALSE]
    ELSE [p EXCEPT ![conn] = FALSE]

\* the wrapping as it would be were DBAPI errors wrapped only like the
\* exceptions of other types
ShouldWrap_dbapi_not_always(error) == error.wraps

\* whether the exception is wrapped: those that subclass the DBAPI's Error
\* class always are, of the other exception types some are and some are not
ShouldWrap(error) == error.dbapi \/ error.wraps

\* the exception to raise as it would be with the handlers' exceptions
\* ignored
ExceptionToRaise_ignores_handlers(ctx, newraise) ==
    IF ctx.sqlalchemy_exception # NoExc
    THEN ctx.sqlalchemy_exception ELSE ctx.original_exception

\* the exception raised after the handlers ran: the one the handlers
\* substituted, else the wrapping exception, else the original one
ExceptionToRaise(ctx, newraise) ==
    IF newraise # NoExc THEN newraise
    ELSE IF ctx.sqlalchemy_exception # NoExc
    THEN ctx.sqlalchemy_exception ELSE ctx.original_exception

\* the error is caught: the context is made, is_disconnect is set from the
\* dialect's classification, which only DBAPI errors are given
NewExceptionContext ==
    /\ hphase = "caught"
    /\ hctx' = [ExceptionContext_new EXCEPT
                    !.original_exception = DriverExc,
                    !.sqlalchemy_exception = IF ShouldWrap(herror)
                                             THEN WrappingExc ELSE NoExc,
                    !.chained_exception = NoExc,
                    !.is_disconnect = IF herror.dbapi /\ herror.disconnect
                                      THEN "True" ELSE "False"]
    /\ hphase' = "handlers"
    /\ UNCHANGED <<herror, hhandlers, hidx, hnewraise, hpool, hseen, hraised>>
    /\ UNCHANGED <<avars, dvars, evars, ivars, pvars, xvars, rvars>>

\* the next handler of the chain receives the context; a handler that
\* raises ends the chain
RunHandler ==
    \E h \in Handlers :
        /\ hphase = "handlers"
        /\ hidx <= MaxHandlers
        /\ hhandlers' = Append(hhandlers, h)
        /\ hseen' = Append(hseen,
                            [chained_exception |-> hctx.chained_exception,
                             is_disconnect |-> hctx.is_disconnect])
        /\ hctx' = RunHandlerOn(hctx, h, hidx)
        /\ hnewraise' = NewRaiseAfter(hnewraise, h, hidx)
        /\ hidx' = hidx + 1
        /\ hphase' = IF h.outcome = "raises" THEN "chain ended" ELSE hphase
        /\ UNCHANGED <<herror, hpool, hraised>>
        /\ UNCHANGED <<avars, dvars, evars, ivars, pvars, xvars, rvars>>

\* after the last handler the connections are invalidated as the flags say
\* and the error is raised
InvalidateAndRaise ==
    /\ hphase \in {"handlers", "chain ended"}
    /\ hpool' = InvalidateOnDisconnect(hpool, hctx, herror.conn)
    /\ hraised' = ExceptionToRaise(hctx, hnewraise)
    /\ hphase' = "raised"
    /\ UNCHANGED <<herror, hctx, hhandlers, hidx, hnewraise, hseen>>
    /\ UNCHANGED <<avars, dvars, evars, ivars, pvars, xvars, rvars>>

ErrorNext == NewExceptionContext \/ RunHandler \/ InvalidateAndRaise

\* =========================================================================
\* Reflected structures
\* =========================================================================

\* the TypedDict classes of constraints and indexes
ReflectedClasses ==
    {"ReflectedCheckConstraint", "ReflectedUniqueConstraint",
     "ReflectedPrimaryKeyConstraint", "ReflectedForeignKeyConstraint",
     "ReflectedIndex"}

\* the keys as they would be were the name declared NotRequired
RequiredKeys_name_not_required ==
    [c \in ReflectedClasses |->
        CASE c = "ReflectedCheckConstraint" -> {"sqltext"}
          [] c = "ReflectedUniqueConstraint" -> {"column_names"}
          [] c = "ReflectedPrimaryKeyConstraint" -> {"constrained_columns"}
          [] c = "ReflectedForeignKeyConstraint" ->
                {"constrained_columns", "referred_schema",
                 "referred_table", "referred_columns"}
          [] c = "ReflectedIndex" -> {"column_names", "unique"}]

\* the keys each class declares without NotRequired
RequiredKeys ==
    [c \in ReflectedClasses |->
        CASE c = "ReflectedCheckConstraint" -> {"name", "sqltext"}
          [] c = "ReflectedUniqueConstraint" -> {"name", "column_names"}
          [] c = "ReflectedPrimaryKeyConstraint" ->
                {"name", "constrained_columns"}
          [] c = "ReflectedForeignKeyConstraint" ->
                {"name", "constrained_columns", "referred_schema",
                 "referred_table", "referred_columns"}
          [] c = "ReflectedIndex" -> {"name", "column_names", "unique"}]

\* the keys each class declares NotRequired
NotRequiredKeys ==
    [c \in ReflectedClasses |->
        IF c = "ReflectedIndex"
        THEN {"duplicates_constraint", "include_columns", "column_sorting",
              "dialect_options"}
        ELSE {"dialect_options"}]

\* the keys each class declares Optional: their value may be None
OptionalKeys ==
    [c \in ReflectedClasses |->
        IF c = "ReflectedForeignKeyConstraint"
        THEN {"name", "referred_schema"} ELSE {"name"}]

\* the keys that hold a list of column names
ColumnListKeys ==
    {"column_names", "constrained_columns", "referred_columns",
     "include_columns"}

\* lists of column names
ColumnLists == UNION {[1..k -> {"id", "x"}] : k \in 0..MaxLen}

\* no reflection call has returned
NoDict == [cls |-> "none", keys |-> {}, name |-> None, columns |-> <<>>]

\* the dictionaries of class c: every required key is present, a
\* NotRequired key may be, the name is a string or, being Optional, None,
\* and the keys that hold column names hold a list
Dicts(c) ==
    {[cls |-> c, keys |-> RequiredKeys[c] \cup opt, name |-> n,
      columns |-> IF (RequiredKeys[c] \cup opt) \cap ColumnListKeys = {}
                  THEN <<>> ELSE cols] :
        opt \in SUBSET NotRequiredKeys[c],
        n \in IF "name" \in OptionalKeys[c] THEN {None, "name"} ELSE {"name"},
        cols \in ColumnLists}

\* a reflection call returns a dictionary of one of the classes
Reflect ==
    /\ rdict = NoDict
    /\ \E c \in ReflectedClasses : rdict' \in Dicts(c)
    /\ UNCHANGED <<avars, dvars, evars, ivars, pvars, xvars, hvars>>

ReflectNext == Reflect

\* =========================================================================
\* Specifications
\* =========================================================================

\* a caller making run_async calls on one adapted connection
InitAsync ==
    /\ adapted \in [_connection : DriverConnections]
    /\ apc = "idle"
    /\ cur = NoRunAsync
    /\ results = <<>>
    /\ alog = <<>>
    /\ dcall = NoCall
    /\ eng = NoEngine
    /\ ehooks = <<>>
    /\ pool = [c \in Conns |-> "absent"]
    /\ initCalls = [c \in Conns |-> 0]
    /\ initConn = 0
    /\ pphase = Len(PluginPhases)
    /\ pidx = 1
    /\ purl = [drivername |-> "db", query |-> {}]
    /\ pkwargs = {}
    /\ plugins = <<>>
    /\ pobjs = <<>>
    /\ pcalls = <<>>
    /\ pengine = NoEngineBuilt
    /\ xphase = 0
    /\ xctx = NewContext("ExecutionContext", FALSE, FALSE)
    /\ xinput = [hook |-> "do_execute", fails |-> FALSE,
                 dialect |-> "Dialect", has_params |-> FALSE]
    /\ xcalls = <<>>
    /\ hphase = "idle"
    /\ herror = [conn |-> 1, dbapi |-> TRUE, disconnect |-> FALSE,
                 wraps |-> FALSE]
    /\ hctx = ExceptionContext_new
    /\ hhandlers = <<>>
    /\ hidx = 1
    /\ hnewraise = NoExc
    /\ hpool = [c \in Conns |-> TRUE]
    /\ hseen = <<>>
    /\ hraised = NoExc
    /\ rdict = NoDict
    /\ ireq = NoRequest

SpecAsync == InitAsync /\ [][AsyncNext]_vars

\* a caller calling the hooks of the dialect classes
InitDialect ==
    /\ adapted = [_connection |-> "aconn1"]
    /\ apc = "idle"
    /\ cur = NoRunAsync
    /\ results = <<>>
    /\ alog = <<>>
    /\ dcall = NoCall
    /\ eng = NoEngine
    /\ ehooks = <<>>
    /\ pool = [c \in Conns |-> "absent"]
    /\ initCalls = [c \in Conns |-> 0]
    /\ initConn = 0
    /\ pphase = Len(PluginPhases)
    /\ pidx = 1
    /\ purl = [drivername |-> "db", query |-> {}]
    /\ pkwargs = {}
    /\ plugins = <<>>
    /\ pobjs = <<>>
    /\ pcalls = <<>>
    /\ pengine = NoEngineBuilt
    /\ xphase = 0
    /\ xctx = NewContext("ExecutionContext", FALSE, FALSE)
    /\ xinput = [hook |-> "do_execute", fails |-> FALSE,
                 dialect |-> "Dialect", has_params |-> FALSE]
    /\ xcalls = <<>>
    /\ hphase = "idle"
    /\ herror = [conn |-> 1, dbapi |-> TRUE, disconnect |-> FALSE,
                 wraps |-> FALSE]
    /\ hctx = ExceptionContext_new
    /\ hhandlers = <<>>
    /\ hidx = 1
    /\ hnewraise = NoExc
    /\ hpool = [c \in Conns |-> TRUE]
    /\ hseen = <<>>
    /\ hraised = NoExc
    /\ rdict = NoDict
    /\ ireq = NoRequest

SpecDialect == InitDialect /\ [][DialectNext]_vars

\* an application building one engine and using its connection pool
InitEngine ==
    /\ adapted = [_connection |-> "aconn1"]
    /\ apc = "idle"
    /\ cur = NoRunAsync
    /\ results = <<>>
    /\ alog = <<>>
    /\ dcall = NoCall
    /\ eng = NoEngine
    /\ ehooks = <<>>
    /\ pool = [c \in Conns |-> "absent"]
    /\ initCalls = [c \in Conns |-> 0]
    /\ initConn = 0
    /\ pphase = Len(PluginPhases)
    /\ pidx = 1
    /\ purl = [drivername |-> "db", query |-> {}]
    /\ pkwargs = {}
    /\ plugins = <<>>
    /\ pobjs = <<>>
    /\ pcalls = <<>>
    /\ pengine = NoEngineBuilt
    /\ xphase = 0
    /\ xctx = NewContext("ExecutionContext", FALSE, FALSE)
    /\ xinput = [hook |-> "do_execute", fails |-> FALSE,
                 dialect |-> "Dialect", has_params |-> FALSE]
    /\ xcalls = <<>>
    /\ hphase = "idle"
    /\ herror = [conn |-> 1, dbapi |-> TRUE, disconnect |-> FALSE,
                 wraps |-> FALSE]
    /\ hctx = ExceptionContext_new
    /\ hhandlers = <<>>
    /\ hidx = 1
    /\ hnewraise = NoExc
    /\ hpool = [c \in Conns |-> TRUE]
    /\ hseen = <<>>
    /\ hraised = NoExc
    /\ rdict = NoDict
    /\ ireq = NoRequest

SpecEngine == InitEngine /\ [][EngineNext]_vars

\* a caller asking for an isolation level on a connection of a dialect: one
\* request, not yet served
InitIsolation ==
    /\ adapted = [_connection |-> "aconn1"]
    /\ apc = "idle"
    /\ cur = NoRunAsync
    /\ results = <<>>
    /\ alog = <<>>
    /\ dcall = NoCall
    /\ eng = NoEngine
    /\ ehooks = <<>>
    /\ pool = [c \in Conns |-> "absent"]
    /\ initCalls = [c \in Conns |-> 0]
    /\ initConn = 0
    /\ pphase = Len(PluginPhases)
    /\ pidx = 1
    /\ purl = [drivername |-> "db", query |-> {}]
    /\ pkwargs = {}
    /\ plugins = <<>>
    /\ pobjs = <<>>
    /\ pcalls = <<>>
    /\ pengine = NoEngineBuilt
    /\ xphase = 0
    /\ xctx = NewContext("ExecutionContext", FALSE, FALSE)
    /\ xinput = [hook |-> "do_execute", fails |-> FALSE,
                 dialect |-> "Dialect", has_params |-> FALSE]
    /\ xcalls = <<>>
    /\ hphase = "idle"
    /\ herror = [conn |-> 1, dbapi |-> TRUE, disconnect |-> FALSE,
                 wraps |-> FALSE]
    /\ hctx = ExceptionContext_new
    /\ hhandlers = <<>>
    /\ hidx = 1
    /\ hnewraise = NoExc
    /\ hpool = [c \in Conns |-> TRUE]
    /\ hseen = <<>>
    /\ hraised = NoExc
    /\ rdict = NoDict
    /\ \E c \in Classes, conn \in DBAPIConnections, n \in Names :
        ireq = [cls |-> c, conn |-> conn, requested |-> n, state |-> "pending",
                outcome |-> Return(None), calls |-> <<>>, passed |-> <<>>]

SpecIsolation == InitIsolation /\ [][IsoNext]_vars

\* an engine construction for a URL that names plugins
InitPlugin ==
    /\ adapted = [_connection |-> "aconn1"]
    /\ apc = "idle"
    /\ cur = NoRunAsync
    /\ results = <<>>
    /\ alog = <<>>
    /\ dcall = NoCall
    /\ eng = NoEngine
    /\ ehooks = <<>>
    /\ pool = [c \in Conns |-> "absent"]
    /\ initCalls = [c \in Conns |-> 0]
    /\ initConn = 0
    /\ ireq = NoRequest
    /\ pphase = 1
    /\ pidx = 1
    /\ purl \in PluginUrls
    /\ pkwargs \in PluginKwargs
    /\ plugins \in PluginLists
    /\ pobjs = <<>>
    /\ pcalls = <<>>
    /\ pengine = NoEngineBuilt
    /\ xphase = 0
    /\ xctx = NewContext("ExecutionContext", FALSE, FALSE)
    /\ xinput = [hook |-> "do_execute", fails |-> FALSE,
                 dialect |-> "Dialect", has_params |-> FALSE]
    /\ xcalls = <<>>
    /\ hphase = "idle"
    /\ herror = [conn |-> 1, dbapi |-> TRUE, disconnect |-> FALSE,
                 wraps |-> FALSE]
    /\ hctx = ExceptionContext_new
    /\ hhandlers = <<>>
    /\ hidx = 1
    /\ hnewraise = NoExc
    /\ hpool = [c \in Conns |-> TRUE]
    /\ hseen = <<>>
    /\ hraised = NoExc
    /\ rdict = NoDict

SpecPlugin == InitPlugin /\ [][PluginNext]_vars

\* the execution of one statement with a context just constructed
InitExec ==
    /\ adapted = [_connection |-> "aconn1"]
    /\ apc = "idle"
    /\ cur = NoRunAsync
    /\ results = <<>>
    /\ alog = <<>>
    /\ dcall = NoCall
    /\ eng = NoEngine
    /\ ehooks = <<>>
    /\ pool = [c \in Conns |-> "absent"]
    /\ initCalls = [c \in Conns |-> 0]
    /\ initConn = 0
    /\ ireq = NoRequest
    /\ pphase = Len(PluginPhases)
    /\ pidx = 1
    /\ purl = [drivername |-> "db", query |-> {}]
    /\ pkwargs = {}
    /\ plugins = <<>>
    /\ pobjs = <<>>
    /\ pcalls = <<>>
    /\ pengine = NoEngineBuilt
    /\ xphase = 1
    /\ \E cls \in ContextClasses, compiled \in BOOLEAN, special \in BOOLEAN :
        xctx = NewContext(cls, compiled, special)
    /\ xinput \in ExecInputs
    /\ xcalls = <<>>
    /\ hphase = "idle"
    /\ herror = [conn |-> 1, dbapi |-> TRUE, disconnect |-> FALSE,
                 wraps |-> FALSE]
    /\ hctx = ExceptionContext_new
    /\ hhandlers = <<>>
    /\ hidx = 1
    /\ hnewraise = NoExc
    /\ hpool = [c \in Conns |-> TRUE]
    /\ hseen = <<>>
    /\ hraised = NoExc
    /\ rdict = NoDict

SpecExec == InitExec /\ [][ExecNext]_vars

\* a driver exception caught on a connection of a pool of valid connections
InitError ==
    /\ adapted = [_connection |-> "aconn1"]
    /\ apc = "idle"
    /\ cur = NoRunAsync
    /\ results = <<>>
    /\ alog = <<>>
    /\ dcall = NoCall
    /\ eng = NoEngine
    /\ ehooks = <<>>
    /\ pool = [c \in Conns |-> "absent"]
    /\ initCalls = [c \in Conns |-> 0]
    /\ initConn = 0
    /\ ireq = NoRequest
    /\ pphase = Len(PluginPhases)
    /\ pidx = 1
    /\ purl = [drivername |-> "db", query |-> {}]
    /\ pkwargs = {}
    /\ plugins = <<>>
    /\ pobjs = <<>>
    /\ pcalls = <<>>
    /\ pengine = NoEngineBuilt
    /\ xphase = 0
    /\ xctx = NewContext("ExecutionContext", FALSE, FALSE)
    /\ xinput = [hook |-> "do_execute", fails |-> FALSE,
                 dialect |-> "Dialect", has_params |-> FALSE]
    /\ xcalls = <<>>
    /\ hphase = "caught"
    /\ herror \in Errors_caught
    /\ hctx = ExceptionContext_new
    /\ hhandlers = <<>>
    /\ hidx = 1
    /\ hnewraise = NoExc
    /\ hpool = [c \in Conns |-> TRUE]
    /\ hseen = <<>>
    /\ hraised = NoExc
    /\ rdict = NoDict

SpecError == InitError /\ [][ErrorNext]_vars

\* no reflection call has been made
InitReflect ==
    /\ adapted = [_connection |-> "aconn1"]
    /\ apc = "idle"
    /\ cur = NoRunAsync
    /\ results = <<>>
    /\ alog = <<>>
    /\ dcall = NoCall
    /\ eng = NoEngine
    /\ ehooks = <<>>
    /\ pool = [c \in Conns |-> "absent"]
    /\ initCalls = [c \in Conns |-> 0]
    /\ initConn = 0
    /\ ireq = NoRequest
    /\ pphase = Len(PluginPhases)
    /\ pidx = 1
    /\ purl = [drivername |-> "db", query |-> {}]
    /\ pkwargs = {}
    /\ plugins = <<>>
    /\ pobjs = <<>>
    /\ pcalls = <<>>
    /\ pengine = NoEngineBuilt
    /\ xphase = 0
    /\ xctx = NewContext("ExecutionContext", FALSE, FALSE)
    /\ xinput = [hook |-> "do_execute", fails |-> FALSE,
                 dialect |-> "Dialect", has_params |-> FALSE]
    /\ xcalls = <<>>
    /\ hphase = "idle"
    /\ herror = [conn |-> 1, dbapi |-> TRUE, disconnect |-> FALSE,
                 wraps |-> FALSE]
    /\ hctx = ExceptionContext_new
    /\ hhandlers = <<>>
    /\ hidx = 1
    /\ hnewraise = NoExc
    /\ hpool = [c \in Conns |-> TRUE]
    /\ hseen = <<>>
    /\ hraised = NoExc
    /\ rdict = NoDict

SpecReflect == InitReflect /\ [][ReflectNext]_vars

\* ------------------------------------------------------------ C1, C2, C3

\* C1: every run_async(fn) whose awaitable resolves to v returns exactly v
C1_ReturnsResolvedValue ==
    \A i \in DOMAIN results :
        results[i].fn.res = "resolve" =>
            results[i].outcome = Return(results[i].fn.val)

C1_Witness ==
    \E i \in DOMAIN results :
        results[i].fn.res = "resolve" /\ results[i].fn.val # None

\* C2: every run_async(fn) whose awaitable fails with e raises e to its
\* caller and returns no value
C2_PropagatesFailure ==
    \A i \in DOMAIN results :
        results[i].fn.res = "fail" =>
            results[i].outcome = Raise(results[i].fn.val)

C2_Witness ==
    \E i \in DOMAIN results : results[i].fn.res = "fail"

\* the position of an event in the log, 0 when it has not happened
Pos(ev, n) ==
    IF \E i \in DOMAIN alog : alog[i] = [ev |-> ev, n |-> n]
    THEN CHOOSE i \in DOMAIN alog : alog[i] = [ev |-> ev, n |-> n]
    ELSE 0

\* C3: the awaited operation has completed or failed before run_async
\* returns, so the operation of an earlier call has finished before the
\* operation of a later call on the same connection starts
C3_OrderPreserved ==
    /\ \A n \in 1..MaxCalls :
        Pos("return", n) # 0 =>
            /\ Pos("finish", n) # 0
            /\ Pos("finish", n) < Pos("return", n)
    /\ \A m, n \in 1..MaxCalls :
        (m < n /\ Pos("start", n) # 0) =>
            /\ Pos("finish", m) # 0
            /\ Pos("finish", m) < Pos("start", n)

C3_Witness ==
    /\ Len(results) >= 2
    /\ Pos("finish", 1) # 0
    /\ Pos("start", 2) # 0

\* -------------------------------------------------------- C4, C5, C6, C8

\* C4: on a Dialect that overrides nothing, every reflection hook raises
\* NotImplementedError instead of returning a value
C4_ReflectionHooksRaise ==
    (dcall.cls = "Dialect" /\ dcall.hook \in ReflectionHooks) =>
        /\ dcall.outcome.kind = "raise"
        /\ dcall.outcome.value = NotImplementedError

\* the hooks the specification lists as having usable defaults
UsableDefaults ==
    {"connect", "on_connect", "get_dialect_cls", "load_provisioning",
     "engine_created"}

\* C5 as stated: on the base Dialect the hooks that return normally are
\* exactly the five listed ones, every other hook raising NotImplementedError
C5_OnlyListedDefaultsReturn ==
    (dcall.cls = "Dialect" /\ dcall.hook \in Hooks) =>
        IF dcall.hook \in UsableDefaults
        THEN dcall.outcome.kind = "return"
        ELSE /\ dcall.outcome.kind = "raise"
             /\ dcall.outcome.value = NotImplementedError

\* C5 amended: on the base Dialect the hooks that return normally are exactly
\* the five listed ones and initialize, on_connect_url, get_async_dialect_cls
\* and get_table_options; every other hook raises NotImplementedError
C5_DefaultsThatReturn ==
    (dcall.cls = "Dialect" /\ dcall.hook \in Hooks) =>
        IF dcall.hook \in UsableDefaults \cup
                {"initialize", "on_connect_url", "get_async_dialect_cls",
                 "get_table_options"}
        THEN dcall.outcome.kind = "return"
        ELSE /\ dcall.outcome.kind = "raise"
             /\ dcall.outcome.value = NotImplementedError

C5_Witness ==
    /\ dcall.cls = "Dialect"
    /\ dcall.hook = "initialize"
    /\ dcall.outcome.kind = "return"

\* C8: get_dialect_cls, where not overridden, returns the class it is called
\* on, and get_async_dialect_cls returns what get_dialect_cls of that class
\* returns for the url, a redirecting override of get_dialect_cls included
C8_DialectClsResolution ==
    /\ (dcall.hook = "get_dialect_cls"
            /\ "get_dialect_cls" \notin Overrides[dcall.cls]) =>
        /\ dcall.outcome.kind = "return"
        /\ dcall.outcome.value = dcall.cls
    /\ (dcall.hook = "get_async_dialect_cls"
            /\ "get_async_dialect_cls" \notin Overrides[dcall.cls]) =>
        /\ dcall.outcome.kind = "return"
        /\ dcall.outcome.value =
            Invoke(dcall.cls, "get_dialect_cls", dcall.arg).value

C8_Witness ==
    /\ dcall.hook = "get_async_dialect_cls"
    /\ dcall.cls = "WrapperDialect"
    /\ dcall.arg.drivername = "db+async"
    /\ dcall.outcome.value = "OnConnectDialect"

\* ----------------------------------------------------------- C7, C9, C10

\* C6: on a dialect that does not override on_connect_url,
\* on_connect_url(url) returns for every url exactly what on_connect()
\* returns and calls on_connect once; on a dialect that overrides
\* on_connect_url without calling on_connect, on_connect is not called
C6_OnConnectUrlDefault ==
    dcall.hook = "on_connect_url" =>
        IF "on_connect_url" \in Overrides[dcall.cls]
        THEN CountCalls(dcall.outcome.calls, "on_connect") = 0
        ELSE /\ dcall.outcome.kind = "return"
             /\ dcall.outcome.value = Invoke(dcall.cls, "on_connect", None).value
             /\ CountCalls(dcall.outcome.calls, "on_connect") = 1

C6_Witness ==
    /\ dcall.hook = "on_connect_url"
    /\ dcall.cls = "OnConnectDialect"
    /\ dcall.arg.query = {"opt"}
    /\ dcall.outcome.value = "do_on_connect"

\* C7: the initializer runs exactly once on each new physical connection, the
\* first connection of the dialect included, and never again when the
\* connection is handed out again; when the hook returns None, as the base
\* on_connect does, no initializer is registered and none runs
C7_InitializerOncePerConnection ==
    /\ \A c \in Conns :
        initCalls[c] =
            IF pool[c] # "absent" /\ eng.listener # None THEN 1 ELSE 0
    /\ (eng.state = "built"
            /\ Overrides[eng.dialect_cls] \cap {"on_connect", "on_connect_url"} = {}) =>
        /\ eng.listener = None
        /\ \A c \in Conns : initCalls[c] = 0

C7_Witness ==
    /\ eng.listener # None
    /\ initConn = 1
    /\ pool[1] = "idle"
    /\ pool[2] = "out"
    /\ initCalls[1] = 1

\* the classes engine_created has been called on, in order
EngineCreatedOn ==
    LET ec == SelectSeq(ehooks, LAMBDA h : h.m = "engine_created")
    IN  [i \in DOMAIN ec |-> ec[i].cls]

\* C9: the engine is returned after engine_created was called on the class
\* get_dialect_cls returned and then on the class it was called on, when the
\* two differ, and once when they are the same class
C9_EngineCreatedOnBothClasses ==
    eng.state # "none" =>
        /\ eng.state = "built"
        /\ EngineCreatedOn = IF eng.dialect_cls # eng.entry
                             THEN <<eng.dialect_cls, eng.entry>>
                             ELSE <<eng.entry>>

C9_Witness ==
    /\ eng.state = "built"
    /\ ~eng.is_async
    /\ eng.entry = "WrapperDialect"
    /\ eng.dialect_cls = "OnConnectDialect"
    /\ pool[1] # "absent"

\* C10: with get_isolation_level_values implemented, every level passed to
\* set_isolation_level is in the list it returns, and a request whose
\* normalized name is not in the list fails with ArgumentError without a
\* call of set_isolation_level
C10_LevelValidated ==
    (ireq.state = "done"
        /\ "get_isolation_level_values" \in Overrides[ireq.cls]) =>
        LET allowed ==
                Range(Invoke(ireq.cls, "get_isolation_level_values",
                             ireq.conn).value)
        IN  /\ \A i \in DOMAIN ireq.passed : ireq.passed[i] \in allowed
            /\ NormalizeLevel(ireq.requested) \notin allowed =>
                /\ ireq.outcome.kind = "raise"
                /\ ireq.outcome.value = "ArgumentError"
                /\ ireq.passed = <<>>
                /\ CountCalls(ireq.calls, "set_isolation_level") = 0

C10_Witness ==
    /\ ireq.state = "done"
    /\ ireq.cls = "IsoDialect"
    /\ ireq.outcome.value = "ArgumentError"
    /\ ireq.requested = <<"b", "_", "a">>

\* ------------------------------------------------------------------- C11

\* the other spelling of a character: the other case of a letter, the other
\* separator
OtherSpelling(ch) ==
    CASE ch = "a" -> "A" [] ch = "A" -> "a" [] ch = "b" -> "B"
      [] ch = "B" -> "b" [] ch = "_" -> " " [] ch = " " -> "_"

\* the names that differ from name only in case or in underscore versus space
Respellings(name) ==
    {n \in [DOMAIN name -> Chars] :
        \A i \in DOMAIN name : n[i] \in {name[i], OtherSpelling(name[i])}}

\* C11: the name passed to the dialect is the requested name with every
\* lowercase letter made uppercase and every underscore made a space; names
\* that differ only in case or in underscore versus space are passed as the
\* same string, and a normalized name is passed unchanged
C11_LevelNormalized ==
    (ireq.state = "done" /\ ireq.passed # <<>>) =>
        LET level == ireq.passed[1]
        IN  /\ Len(ireq.passed) = 1
            /\ DOMAIN level = DOMAIN ireq.requested
            /\ \A i \in DOMAIN level :
                /\ level[i] \in {"A", "B", " "}
                /\ level[i] \in {ireq.requested[i],
                                 OtherSpelling(ireq.requested[i])}
            /\ \A n \in Respellings(ireq.requested) \cup {level} :
                _assert_and_set_isolation_level(ireq.cls, ireq.conn, n).passed
                    = ireq.passed

C11_Witness ==
    /\ ireq.state = "done"
    /\ ireq.cls = "IsoDialect"
    /\ ireq.requested = <<"a", "_", "b">>
    /\ ireq.passed = << <<"A", " ", "B">> >>
    /\ ireq.outcome.kind = "return"

\* ---------------------------------------------------------- C17, C18

\* C17: every update_url(url) returns the URL without the query parameters
\* of its plugin and with every other parameter as it was, and update_url
\* applied to the URL it returned returns an equal URL
C17_UpdateUrlStripsParams ==
    \A k \in DOMAIN pcalls :
        pcalls[k].m = "update_url" =>
            LET self == pobjs[pcalls[k].i]
                url == pcalls[k].arg
                stripped == [url EXCEPT !.query = @ \ PluginParams[self.cls]]
            IN  /\ pcalls[k].outcome = Return(stripped)
                /\ PluginInvoke(self, "update_url", stripped) = Return(stripped)

\* the positions of the calls of hook m of plugin i
CallsOf(i, m) == {k \in DOMAIN pcalls : pcalls[k].i = i /\ pcalls[k].m = m}

\* C18: in one engine construction every plugin is constructed once and its
\* update_url is called after its construction; its engine_created is called
\* at most once, exactly once when the construction has finished, with the
\* one engine built from the URL, after the engine was built and after
\* update_url, handle_dialect_kwargs and handle_pool_kwargs of that plugin
C18_PluginHookOrder ==
    \A i \in DOMAIN plugins :
        /\ Cardinality(CallsOf(i, "__init__")) <= 1
        /\ \A k \in CallsOf(i, "update_url") :
            \E j \in CallsOf(i, "__init__") : j < k
        /\ Cardinality(CallsOf(i, "engine_created")) <= 1
        /\ PluginPhases[pphase] = "done" =>
            /\ Cardinality(CallsOf(i, "__init__")) = 1
            /\ Cardinality(CallsOf(i, "engine_created")) = 1
        /\ \A k \in CallsOf(i, "engine_created") :
            /\ pengine # NoEngineBuilt
            /\ pcalls[k].arg = pengine
            /\ pengine.url = purl
            /\ \A m \in {"update_url", "handle_dialect_kwargs",
                         "handle_pool_kwargs"} :
                /\ CallsOf(i, m) # {}
                /\ \A j \in CallsOf(i, m) : j < k

C18_Witness ==
    /\ PluginPhases[pphase] = "done"
    /\ Len(plugins) = 2
    /\ plugins[1] = "LogCursorEventsPlugin"
    /\ Cardinality(CallsOf(2, "engine_created")) = 1
    /\ pengine.url.query = {"opt"}

\* ------------------------------------------------------------------- C19

\* the positions of the calls of the hooks ms in the execution
ExecCallsOf(ms) == {k \in DOMAIN xcalls : xcalls[k].m \in ms}

\* each call of a hook of later is preceded by a call of a hook of earlier
Precedes(earlier, later) ==
    \A k \in ExecCallsOf(later) : \E j \in ExecCallsOf(earlier) : j < k

\* C19 as stated: the phases come in the order pre_exec, create_cursor,
\* do_execute*, post_exec, get_result_cursor_strategy; no cursor exists
\* while pre_exec runs; post_exec never runs before the do_execute* hook
C19_PreExecBeforeCursor ==
    /\ Precedes({"pre_exec"}, {"create_cursor"})
    /\ Precedes({"create_cursor"}, DoExecuteHooks)
    /\ Precedes(DoExecuteHooks, {"post_exec"})
    /\ Precedes({"post_exec"}, {"get_result_cursor_strategy"})
    /\ \A k \in ExecCallsOf({"pre_exec"}) : xcalls[k].cursor = None

\* C19 amended: the phases come in the order create_cursor, pre_exec,
\* do_execute*, post_exec, get_result_cursor_strategy, each hook called at
\* most once; the cursor exists while pre_exec runs, and post_exec never
\* runs before the do_execute* hook
C19_CursorBeforePreExec ==
    /\ Precedes({"create_cursor"}, {"pre_exec"})
    /\ Precedes({"pre_exec"}, DoExecuteHooks)
    /\ Precedes(DoExecuteHooks, {"post_exec"})
    /\ Precedes({"post_exec"}, {"get_result_cursor_strategy"})
    /\ \A m \in ExecutionContext_Methods \cup DoExecuteHooks :
        Cardinality(ExecCallsOf({m})) <= 1
    /\ \A k \in ExecCallsOf({"pre_exec"}) : xcalls[k].cursor # None
    /\ xphase > 0 /\ ExecPhases[xphase] = "done" =>
        \A m \in {"create_cursor", "pre_exec", "post_exec",
                  "get_result_cursor_strategy"} : ExecCallsOf({m}) # {}

C19_Witness ==
    /\ xphase > 0
    /\ ExecPhases[xphase] = "done"
    /\ xctx.cls = "MyExecutionContext"
    /\ xctx._pre_buffered_result
    /\ xctx.strategy = "FullyBufferedCursorFetchStrategy"
    /\ xinput.hook = "do_executemany"

\* ------------------------------------------------------------- C20, C21

\* the greatest member of a set of positions, 0 when there is none
Last(S) == IF S = {} THEN 0 ELSE CHOOSE i \in S : \A j \in S : j <= i

\* the last handler before position n that assigns to
\* invalidate_pool_on_disconnect
LastAssigningPoolFlag(n) ==
    Last({i \in 1..(n - 1) :
            hhandlers[i].invalidate_pool_on_disconnect # "keep"})

\* C20 as stated: a context that no handler has received yet has the pool
\* flag True; when the error is a disconnect after the handlers ran, every
\* connection of the pool is invalidated, unless a handler set
\* invalidate_pool_on_disconnect to False: then the connection of the error
\* is invalidated and every other connection stays valid
C20_PoolInvalidationScope ==
    /\ (hphase = "handlers" /\ hidx = 1) =>
        hctx.invalidate_pool_on_disconnect = TRUE
    /\ (hphase = "raised" /\ hctx.is_disconnect = "True") =>
        IF \E i \in DOMAIN hhandlers :
                hhandlers[i].invalidate_pool_on_disconnect = "False"
        THEN \A c \in Conns : hpool[c] <=> (c # herror.conn)
        ELSE \A c \in Conns : ~hpool[c]

\* C20 amended: a context that no handler has received yet has the pool
\* flag True; when the error is a disconnect after the handlers ran, every
\* connection of the pool is invalidated, unless the flag is False after
\* the last handler ran, that is, the last handler that assigned it
\* assigned False: then the connection of the error is invalidated and
\* every other connection stays valid
C20_FinalFlagDecidesScope ==
    /\ (hphase = "handlers" /\ hidx = 1) =>
        hctx.invalidate_pool_on_disconnect = TRUE
    /\ (hphase = "raised" /\ hctx.is_disconnect = "True") =>
        LET last == LastAssigningPoolFlag(Len(hhandlers) + 1)
        IN  IF last # 0
                /\ hhandlers[last].invalidate_pool_on_disconnect = "False"
            THEN \A c \in Conns : hpool[c] <=> (c # herror.conn)
            ELSE \A c \in Conns : ~hpool[c]

C20_Witness ==
    /\ hphase = "raised"
    /\ herror.dbapi /\ herror.disconnect
    /\ hctx.is_disconnect = "True"
    /\ Len(hhandlers) = 3
    /\ hhandlers[1].invalidate_pool_on_disconnect = "True"
    /\ hhandlers[2].invalidate_pool_on_disconnect = "False"
    /\ hhandlers[3].invalidate_pool_on_disconnect = "keep"
    /\ herror.conn = MaxConns
    /\ hpool[1] /\ hpool[2] /\ ~hpool[MaxConns]

\* no handler returned or raised an exception
NoHandlerException ==
    \A i \in DOMAIN hhandlers : hhandlers[i].outcome = "none"

C22_NameAndColumnList ==
    rdict # NoDict =>
        /\ "name" \in rdict.keys
        /\ rdict.keys \cap ColumnListKeys # {}

\* C22 amended: every dictionary of the five classes has the key name,
\* whose value may be None; ReflectedUniqueConstraint and ReflectedIndex
\* always have column_names, ReflectedPrimaryKeyConstraint always has
\* constrained_columns, ReflectedForeignKeyConstraint always has
\* constrained_columns and referred_columns, and ReflectedCheckConstraint
\* has no list of column names but always has sqltext
C22_NameAndColumnsWhereDeclared ==
    rdict # NoDict =>
        /\ "name" \in rdict.keys
        /\ "name" \in OptionalKeys[rdict.cls]
        /\ rdict.cls \in {"ReflectedUniqueConstraint", "ReflectedIndex"} =>
            "column_names" \in rdict.keys
        /\ rdict.cls = "ReflectedPrimaryKeyConstraint" =>
            "constrained_columns" \in rdict.keys
        /\ rdict.cls = "ReflectedForeignKeyConstraint" =>
            {"constrained_columns", "referred_columns"} \subseteq rdict.keys
        /\ rdict.cls = "ReflectedCheckConstraint" =>
            /\ rdict.keys \cap ColumnListKeys = {}
            /\ "sqltext" \in rdict.keys

C22_Witness ==
    /\ rdict.cls = "ReflectedCheckConstraint"
    /\ rdict.name = None
    /\ rdict.keys = {"name", "sqltext"}

\* ---------------------------------------------------------- C23, C24

\* the positions in the engine's calls of the callable the on_connect hook
\* returned
ListenerCalls ==
    {j \in DOMAIN ehooks : eng.listener # None /\ ehooks[j].m = eng.listener}

\* the positions in the engine's calls of Dialect.initialize
InitializeCalls == {k \in DOMAIN ehooks : ehooks[k].m = "initialize"}

\* C23: no callable returned by on_connect or on_connect_url runs on a
\* connection before Dialect.initialize has been called
C23_InitializeBeforeOnConnect ==
    \A j \in ListenerCalls : \E k \in InitializeCalls : k < j

\* C24: on the first connection of a dialect the callable the on_connect
\* hook returned has run, once, when Dialect.initialize is called, and
\* initialize is called once
C24_OnConnectBeforeInitialize ==
    /\ Cardinality(InitializeCalls) = IF initConn = 0 THEN 0 ELSE 1
    /\ eng.listener # None =>
        \A k \in InitializeCalls :
            Cardinality({j \in ListenerCalls : j < k}) = 1

C24_Witness ==
    /\ eng.listener = "do_on_connect"
    /\ initConn = 1
    /\ pool[2] = "out"
    /\ Cardinality(ListenerCalls) = 2
    /\ Cardinality(InitializeCalls) = 1

\* ------------------------------------------------------------------- C25

\* C25: on a dialect that overrides get_isolation_level and not
\* get_default_isolation_level, get_default_isolation_level(conn) returns
\* what get_isolation_level(conn) returns; and whatever the dialect,
\* the base method raises nothing but NotImplementedError
C25_DefaultsToGetIsolationLevel ==
    (/\ dcall.hook = "get_default_isolation_level"
     /\ "get_default_isolation_level" \notin Overrides[dcall.cls]) =>
        /\ dcall.outcome.kind = "raise" =>
            dcall.outcome.value = NotImplementedError
        /\ "get_isolation_level" \in Overrides[dcall.cls] =>
            /\ dcall.outcome.kind = "return"
            /\ dcall.outcome.value =
                Invoke(dcall.cls, "get_isolation_level", dcall.arg).value

\* ---------------------------------------------------------- C26, C27

\* the last handler before position n that assigns to is_disconnect
LastAssigning(n) ==
    Last({i \in 1..(n - 1) : hhandlers[i].is_disconnect # "keep"})

\* the last handler before position n that returns an exception
LastReturning(n) ==
    Last({i \in 1..(n - 1) : hhandlers[i].outcome = "returns"})

\* C26: the connection of the error is invalidated exactly when
\* ExceptionContext.is_disconnect is True after the last handler ran: that
\* is the value the last handler that assigned the flag gave it, whatever
\* the dialect's classification, and the classification when no handler
\* assigned it; every handler finds the flag True or False, never None
C26_HandlersDecideInvalidation ==
    /\ \A i \in DOMAIN hseen : hseen[i].is_disconnect \in {"True", "False"}
    /\ hphase = "raised" =>
        LET last == LastAssigning(Len(hhandlers) + 1)
            final == IF last = 0
                     THEN herror.dbapi /\ herror.disconnect
                     ELSE hhandlers[last].is_disconnect = "True"
        IN  /\ (hctx.is_disconnect = "True") <=> final
            /\ ~hpool[herror.conn] <=> final
            /\ ~final => \A c \in Conns : hpool[c]

C26_Witness ==
    /\ hphase = "raised"
    /\ herror.dbapi /\ herror.disconnect
    /\ Len(hhandlers) = 2
    /\ hhandlers[1].is_disconnect = "True"
    /\ hhandlers[2].is_disconnect = "False"
    /\ hpool[herror.conn]

\* what each handler found as chained_exception: the exception the last
\* handler before it that returned one returned, None when none did
ChainedExceptionSeen ==
    \A i \in DOMAIN hseen :
        LET last == LastReturning(i)
        IN  hseen[i].chained_exception =
                IF last = 0 THEN NoExc ELSE HandlerExc(last)

\* C27 as stated: each handler finds as chained_exception the exception
\* returned before it in the chain, None when no earlier handler returned
\* one; the exception raised is the one the last handler that returned an
\* exception returned, and the wrapping exception when no handler returned
\* one
C27_ChainedOrWrapping ==
    /\ ChainedExceptionSeen
    /\ hphase = "raised" =>
        LET last == LastReturning(Len(hhandlers) + 1)
        IN  hraised = IF last = 0 THEN WrappingExc ELSE HandlerExc(last)

\* C27 amended: each handler finds as chained_exception the exception
\* returned before it in the chain, None when no earlier handler returned
\* one; when the last handler of the chain raised an exception, that
\* exception is raised; otherwise the exception raised is the one the last
\* handler that returned an exception returned, and when no handler
\* returned one it is the wrapping exception if the context has one and the
\* original exception if sqlalchemy_exception is None
C27_ChainedOrWrappingOrOriginal ==
    /\ ChainedExceptionSeen
    /\ \A i \in DOMAIN hhandlers :
        hhandlers[i].outcome = "raises" => i = Len(hhandlers)
    /\ hphase = "raised" =>
        LET n == Len(hhandlers)
            last == LastReturning(n + 1)
        IN  hraised =
                IF n > 0 /\ hhandlers[n].outcome = "raises"
                THEN HandlerRaisedExc(n)
                ELSE IF last # 0 THEN HandlerExc(last)
                ELSE IF hctx.sqlalchemy_exception # NoExc
                THEN hctx.sqlalchemy_exception
                ELSE hctx.original_exception

C27_Witness ==
    /\ hphase = "raised"
    /\ Len(hhandlers) = 3
    /\ hhandlers[1].outcome = "returns"
    /\ hhandlers[2].outcome = "none"
    /\ hhandlers[3].outcome = "none"
    /\ hseen[3].chained_exception = HandlerExc(1)
    /\ hraised = HandlerExc(1)

\* ---------------------------------------------------------------- C28

\* C28: do_set_input_sizes is called only for a dialect whose bind_typing
\* is BindTyping.SETINPUTSIZES and a statement with bound parameters, never
\* with the base default BindTyping.NONE or with RENDER_CASTS; an execution
\* of such a statement on such a dialect that reaches its do_execute* hook
\* has called it, and it is called before that hook
C28_SetInputSizesCalled ==
    LET asked == xinput.dialect = "SetInputSizesDialect" /\ xinput.has_params
    IN  /\ ExecCallsOf({"do_set_input_sizes"}) # {} => asked
        /\ xinput.dialect \in {"Dialect", "RenderCastsDialect"} =>
                ExecCallsOf({"do_set_input_sizes"}) = {}
        /\ asked => Precedes({"do_set_input_sizes"}, DoExecuteHooks)
        /\ \A k \in ExecCallsOf({"do_set_input_sizes"}) :
                \A j \in ExecCallsOf(DoExecuteHooks) : k < j

C28_Witness ==
    /\ xinput.dialect = "SetInputSizesDialect"
    /\ xinput.has_params
    /\ xinput.hook = "do_executemany"
    /\ \E k \in ExecCallsOf({"do_set_input_sizes"}) :
            \E j \in ExecCallsOf({"do_executemany"}) : k < j

\* ---------------------------------------------------------------- C29

\* C29: the one call run_async(fn) makes of fn is given the object the
\* driver_connection property returns, and that object is the same after
\* every run_async call as it was when the call was made, whether the call
\* returned or failed
C29_RunAsyncLeavesConnection ==
    /\ \A i \in DOMAIN results :
        results[i].arg = driver_connection(adapted)
    /\ apc = "in_run_async" =>
        cur.plan.awaitable = CallFn(cur.fn, driver_connection(adapted))

C29_Witness ==
    /\ Len(results) = MaxCalls
    /\ \E i, j \in DOMAIN results :
        /\ i < j
        /\ results[i].outcome.kind = "raise"
        /\ results[j].outcome.kind = "return"
        /\ results[i].arg = driver_connection(adapted)
        /\ results[j].arg = driver_connection(adapted)

\* ---------------------------------------------------------------- C30

\* the next hook call of the construction is one of a plugin that overrides
\* nothing
BasePluginTurn ==
    /\ PluginPhases[pphase] \notin {"engine", "done"}
    /\ plugins[pidx] = "CreateEnginePlugin"

\* a hook call of a plugin that overrides nothing: the URL, the keyword
\* arguments and the engine stay as they were; __init__ yields an object
\* with the URL as self.url, every other hook returns None
BasePluginCall ==
    /\ purl' = purl
    /\ pkwargs' = pkwargs
    /\ pengine' = pengine
    /\ Len(pcalls') = Len(pcalls) + 1
    /\ LET call == pcalls'[Len(pcalls')]
       IN  /\ call.m = PluginPhases[pphase]
           /\ call.m = "__init__" =>
                /\ Len(pobjs') = Len(pobjs) + 1
                /\ pobjs'[Len(pobjs')].url = purl
           /\ call.m = "update_url" => call.outcome = Return(NoneUrl)
           /\ call.m \in {"handle_dialect_kwargs", "handle_pool_kwargs",
                          "engine_created"} =>
                call.outcome = Return(None)

\* C30: every hook of a plugin that overrides none of them leaves the URL,
\* the keyword arguments and the engine unchanged, __init__ storing the URL
\* as self.url and the other hooks returning None; when no plugin of the
\* list overrides a hook the engine is built with the URL and the keyword
\* arguments as the first plugin was given them
C30_BasePluginChangesNothing ==
    /\ [][BasePluginTurn => BasePluginCall]_vars
    /\ [](((\A i \in DOMAIN plugins : plugins[i] = "CreateEnginePlugin")
            /\ pengine # NoEngineBuilt) =>
                /\ pengine.url = pcalls[1].arg
                /\ pengine.kwargs = pkwargs
                /\ \A i \in DOMAIN pobjs : pobjs[i].url = pengine.url)

C30_Witness ==
    /\ PluginPhases[pphase] = "done"
    /\ Len(plugins) = 2
    /\ \A i \in DOMAIN plugins : plugins[i] = "CreateEnginePlugin"
    /\ pengine.url.query = {"log_cursor_logging_name", "opt"}
    /\ pengine.kwargs = {"echo"}

====
